---- MODULE Spec2Model ----
(***************************************************************************)
(* State-machine model of the AstraSemi training backend (src/app.py,      *)
(* src/quality_insight_api.py).  Every HTTP handler is one action: it      *)
(* takes the request and the behaviour of its collaborators (LLM           *)
(* completion service, clock, random generator) as inputs and leaves the   *)
(* request, the response and the calls made to the completion service in   *)
(* the state.                                                              *)
(*                                                                         *)
(* Strings the code inspects character by character (credential, file      *)
(* names, observation text, mode) are sequences of one-character strings;  *)
(* strings the code only passes along are TLA+ strings.                    *)
(***************************************************************************)
EXTENDS Integers, Sequences, FiniteSets, TLC

VARIABLES apiKey, request, response, gatewayLog, generator, reading, record

vars == <<apiKey, request, response, gatewayLog, generator, reading, record>>

----------------------------------------------------------------------------
(* Character-sequence helpers: str.startswith, str.endswith, str.strip,    *)
(* str.upper, and the conversion to an opaque string.                      *)

Rep(c, n) == [i \in 1..n |-> c]

StartsWith(s, p) == Len(s) >= Len(p) /\ SubSeq(s, 1, Len(p)) = p

EndsWith(s, p) == Len(s) >= Len(p) /\ SubSeq(s, Len(s) - Len(p) + 1, Len(s)) = p

Whitespace == {" ", "\t", "\n", "\r"}

RECURSIVE LStrip(_)
LStrip(s) == IF s # <<>> /\ Head(s) \in Whitespace THEN LStrip(Tail(s)) ELSE s

RECURSIVE RStrip(_)
RStrip(s) ==
  IF s # <<>> /\ s[Len(s)] \in Whitespace THEN RStrip(SubSeq(s, 1, Len(s) - 1)) ELSE s

Strip(s) == RStrip(LStrip(s))

LowerCase == <<"a","b","c","d","e","f","g","h","i","j","k","l","m",
               "n","o","p","q","r","s","t","u","v","w","x","y","z">>

UpperCase == <<"A","B","C","D","E","F","G","H","I","J","K","L","M",
               "N","O","P","Q","R","S","T","U","V","W","X","Y","Z">>

UpperChar(c) ==
  IF \E i \in 1..Len(LowerCase) : LowerCase[i] = c
  THEN UpperCase[CHOOSE i \in 1..Len(LowerCase) : LowerCase[i] = c]
  ELSE c

Upper(s) == [i \in 1..Len(s) |-> UpperChar(s[i])]

RECURSIVE Join(_)
Join(s) == IF s = <<>> THEN "" ELSE s[1] \o Join(Tail(s))

----------------------------------------------------------------------------
(* JSON values of request and response bodies.                             *)

JStr(s)   == [kind |-> "string", text |-> s,  items |-> <<>>]
JNull     == [kind |-> "null",   text |-> "", items |-> <<>>]
JList(xs) == [kind |-> "list",   text |-> "", items |-> xs]

----------------------------------------------------------------------------
(* The credential and is_api_ready.                                        *)

NoKey == [present |-> FALSE, chars |-> <<>>]

Key(cs) == [present |-> TRUE, chars |-> cs]

ProviderPrefix == <<"s", "k", "-">>

ApiKeys == { NoKey,
             Key(<<>>),
             Key(<<"s", "k", "-", "l", "i", "v", "e">>),
             Key(<<"p", "k", "-", "l", "i", "v", "e">>),
             Key(<<"s", "k">>) }

is_api_ready(key) == key.present /\ StartsWith(key.chars, ProviderPrefix)

----------------------------------------------------------------------------
(* Bodies, responses and the outcome of one chat-completion call.          *)

EmptyObj == [k \in {} |-> JNull]

Obj1(k, v) == [x \in {k} |-> v]

Response(status, body) == [status |-> status, body |-> body, uncaught |-> FALSE]

(* An exception that leaves the view function: Flask answers 500.          *)
Unhandled(exc) == [status |-> 500, body |-> Obj1("exception", JStr(exc)), uncaught |-> TRUE]

NoRequest == [endpoint |-> "none"]

NoResponse == [status |-> 0, body |-> EmptyObj, uncaught |-> FALSE]

(* No request is being handled: the process waits for the next one.      *)
Idle == request = NoRequest

(* The response leaves the process and the request's objects are dropped; *)
(* nothing of the request is kept for the next one.                       *)
Deliver ==
  /\ ~Idle
  /\ request' = NoRequest
  /\ response' = NoResponse
  /\ gatewayLog' = <<>>
  /\ UNCHANGED <<apiKey, generator, reading, record>>

(* A request field: absent from the JSON object, a string, or a JSON value *)
(* of another type.                                                        *)
Absent == [kind |-> "absent", chars |-> <<>>]

Str(cs) == [kind |-> "string", chars |-> cs]

NonStr == [kind |-> "number", chars |-> <<>>]

(* dict.get(key, default) on the request object.                           *)
Get(field, default) == IF field.kind = "absent" THEN default ELSE field

----------------------------------------------------------------------------
(* The chat-completion service (client.chat.completions.create followed by *)
(* response.choices[0].message.content).  A call raises, or returns a      *)
(* message whose content is null, or returns text.  Of the text the model  *)
(* keeps what the handlers look at: for parse_json_response the text cut   *)
(* into tokens (a code fence, an opening brace, a closing brace, "a" for   *)
(* the members the LLM wrote, "w" for any other words) and the object the  *)
(* members stand for; for the free-text modes the prose.                   *)

QIFields == {"riskLevel", "riskInterpretation", "keyPoints", "actions",
             "clarifyingQuestions", "disclaimer"}

Disclaimer == "This insight is general guidance and not a technical or engineering assessment."

(* What the LLM may put under a key: the value the prompt asks for, or     *)
(* (deviant) something else.                                               *)
LLMValue(k, deviant) ==
  CASE k = "riskLevel"           -> IF deviant THEN JStr("CRITICAL") ELSE JStr("HIGH")
    [] k = "riskInterpretation"  -> JStr("The residue may point to a cleaning issue.")
    [] k = "keyPoints"           -> IF deviant THEN JStr("Residue near the wafer edge")
                                    ELSE JList(<<"Residue near the wafer edge">>)
    [] k = "actions"             -> JList(<<"Tell the shift lead", "Log the lot number">>)
    [] k = "clarifyingQuestions" -> JList(<<>>)
    [] k = "disclaimer"          -> IF deviant THEN JStr("Verified by engineering.")
                                    ELSE JStr(Disclaimer)

DeviantKeys == {"riskLevel", "keyPoints", "disclaimer"}

LLMObjects ==
  { [k \in keys |-> LLMValue(k, k \in dev)] :
      <<keys, dev>> \in { kd \in (SUBSET QIFields) \X (SUBSET DeviantKeys) : kd[2] \subseteq kd[1] } }

(* The three backquotes that open and close a code block.                 *)
Fence == "[fence]"

TokenKinds == {Fence, "{", "}", "a", "w"}

NoText == [tokens |-> <<>>, obj |-> EmptyObj, prose |-> ""]

(* Texts of the structured mode: prose only; the bare object; the object   *)
(* inside prose; the object in a fence; the empty object; a fence holding  *)
(* words in braces, before and without the object; an object followed by   *)
(* words and a closing brace, bare and fenced.                             *)
TokenTexts ==
  { <<"w">>,
    <<"{", "a", "}">>,
    <<"w", "{", "a", "}", "w">>,
    <<"w", Fence, "{", "a", "}", Fence>>,
    <<"{", "}">>,
    <<Fence, "{", "w", "}", Fence, "{", "a", "}">>,
    <<Fence, "{", "w", "}", Fence>>,
    <<"{", "a", "}", "w", "}">>,
    <<Fence, "{", "a", "}", Fence, "w", "}">> }

(* The object the prompt asks for.                                         *)
WrittenObject == [k \in QIFields |-> LLMValue(k, FALSE)]

(* The bare object with every choice of members, and every other text with *)
(* the object the prompt asks for.                                         *)
LLMTexts ==
  { [tokens |-> <<"{", "a", "}">>, obj |-> o, prose |-> "Here is the analysis."] :
      o \in LLMObjects }
  \cup
  { [tokens |-> t,
     obj |-> IF \E i \in 1..Len(t) : t[i] = "a" THEN WrittenObject ELSE EmptyObj,
     prose |-> "Here is the analysis."] : t \in TokenTexts }

Raises(exc)  == [kind |-> "raise", exc |-> exc, text |-> NoText]

NullContent  == [kind |-> "null", exc |-> "", text |-> NoText]

Content(t)   == [kind |-> "text", exc |-> "", text |-> t]

NoCall       == [kind |-> "none", exc |-> "", text |-> NoText]

GatewayErrors == {"AuthenticationError", "APIConnectionError"}

(* Completions of the structured mode and of the free-text modes.          *)
StructuredCompletions ==
  {Raises(e) : e \in GatewayErrors} \cup {NullContent} \cup {Content(t) : t \in LLMTexts}

(* A text the markup conversion fails on.                                  *)
UnrenderableText == "> > > > > > > > a quote nested too deep to convert"

FreeTextCompletions ==
  {Raises(e) : e \in GatewayErrors} \cup {NullContent}
    \cup {Content([NoText EXCEPT !.prose = p]) :
            p \in {"Line one.\nLine two.", "## Findings", UnrenderableText}}

(* One entry of the log of calls made to the completion service.           *)
Call(endpoint, system) == [endpoint |-> endpoint, model |-> "gpt-4o", system |-> system]

----------------------------------------------------------------------------
(* src/quality_insight_api.py                                              *)

(* The first re.search, for a fence, "{", the fewest characters, "}" and a *)
(* fence: it matches at the leftmost fence that is followed by "{" and has *)
(* a "}" followed by a fence after it, and group(1) runs from that "{" to  *)
(* the nearest such "}".  <<>> when there is no match.                     *)
FencedBlock(t) ==
  LET closes(i) == {j \in (i + 2)..(Len(t) - 1) : t[j] = "}" /\ t[j + 1] = Fence}
      starts    == {i \in 1..Len(t) : /\ t[i] = Fence
                                      /\ i < Len(t) /\ t[i + 1] = "{"
                                      /\ closes(i) # {}}
      first     == CHOOSE i \in starts : \A k \in starts : i <= k
      last      == CHOOSE j \in closes(first) : \A k \in closes(first) : j <= k
  IN  IF starts = {} THEN <<>> ELSE SubSeq(t, first + 1, last)

(* The second re.search, for "{", the most characters and "}": from the    *)
(* first "{" of the text to the last "}" after it.                         *)
BraceSpan(t) ==
  LET opens  == {i \in 1..Len(t) : t[i] = "{"}
      first  == CHOOSE i \in opens : \A k \in opens : i <= k
      closes == {j \in 1..Len(t) : t[j] = "}" /\ j > first}
      last   == CHOOSE j \in closes : \A k \in closes : k <= j
  IN  IF opens = {} \/ closes = {} THEN <<>> ELSE SubSeq(t, first, last)

(* json.loads accepts the span: one object, its braces balanced, made of   *)
(* members and nested objects only.                                        *)
json_loads(span) ==
  LET depth(n) == Cardinality({i \in 1..n : span[i] = "{"})
                    - Cardinality({i \in 1..n : span[i] = "}"})
  IN  /\ Len(span) >= 2
      /\ span[1] = "{"
      /\ \A i \in 1..Len(span) : span[i] \in {"{", "}", "a"}
      /\ \A n \in 1..(Len(span) - 1) : depth(n) > 0
      /\ depth(Len(span)) = 0

(* The object json.loads returns for an accepted span.                     *)
DictOf(span, obj) == IF \E i \in 1..Len(span) : span[i] = "a" THEN obj ELSE EmptyObj

(* parse_json_response: re.search raises TypeError on a null text; a       *)
(* fenced block that json.loads accepts is returned; else the brace span   *)
(* if json.loads accepts it; else None.  source is the part of the text    *)
(* the returned object was read from.                                      *)
parse_json_response(completion) ==
  LET fenced == FencedBlock(completion.text.tokens)
      span   == BraceSpan(completion.text.tokens)
  IN  IF completion.kind # "text" THEN [kind |-> "raised", obj |-> EmptyObj, source |-> <<>>]
      ELSE IF fenced # <<>> /\ json_loads(fenced)
           THEN [kind |-> "dict", obj |-> DictOf(fenced, completion.text.obj), source |-> fenced]
      ELSE IF span # <<>> /\ json_loads(span)
           THEN [kind |-> "dict", obj |-> DictOf(span, completion.text.obj), source |-> span]
      ELSE [kind |-> "none", obj |-> EmptyObj, source |-> <<>>]

(* The value written under a key the parsed object lacks.                  *)
DefaultField(k) ==
  CASE k = "disclaimer"          -> JStr(Disclaimer)
    [] k = "riskLevel"           -> JStr("MEDIUM")
    [] k = "riskInterpretation"  -> JStr("The observation requires attention and follow-up.")
    [] k = "keyPoints"           -> JList(<<"Review the observation details",
                                           "Consult with supervisor if needed">>)
    [] k = "actions"             -> JList(<<"Document the observation",
                                           "Follow standard procedures",
                                           "Report if necessary">>)
    [] k = "clarifyingQuestions" -> JList(<<>>)

(* "if 'k' not in parsed: parsed['k'] = default", for each of the six      *)
(* keys; a key the object has keeps the value the object has.              *)
FillMissing(parsed) ==
  [k \in (DOMAIN parsed) \cup QIFields |->
     IF k \in DOMAIN parsed THEN parsed[k] ELSE DefaultField(k)]

Insight(level, interpretation, points, actions, questions) ==
  [k \in QIFields |->
     CASE k = "riskLevel"           -> JStr(level)
       [] k = "riskInterpretation"  -> JStr(interpretation)
       [] k = "keyPoints"           -> JList(points)
       [] k = "actions"             -> JList(actions)
       [] k = "clarifyingQuestions" -> JList(questions)
       [] k = "disclaimer"          -> JStr(Disclaimer)]

(* The literal returned when the text could not be parsed.                 *)
ParseFallbackInsight ==
  Insight("MEDIUM",
          "The observation has been noted and requires standard follow-up procedures.",
          <<"Document the observation clearly", "Follow standard operating procedures",
            "Report to supervisor if needed">>,
          <<"Review observation details", "Check standard procedures",
            "Consult with team if uncertain">>,
          <<"When did this observation occur?", "Has this been observed before?">>)

(* The literal returned when generate_quality_insight raised.              *)
ErrorFallbackInsight ==
  Insight("MEDIUM",
          "Unable to process observation at this time. Please consult with your supervisor.",
          <<"Document the observation", "Follow standard procedures", "Report to supervisor">>,
          <<"Review standard operating procedures", "Consult with team members",
            "Escalate if needed">>,
          <<>>)

(* The mock literal with the error fallback returned in its place.         *)
MockInsightWrongLiteral == ErrorFallbackInsight

(* The literal returned when no usable credential is configured.           *)
MockInsight ==
  Insight("LOW",
          "The observation appears routine. Continue monitoring and follow standard procedures.",
          <<"Observation has been noted", "No immediate action required",
            "Continue standard monitoring">>,
          <<"Document the observation", "Continue normal operations", "Report any changes">>,
          <<"Is this a recurring observation?", "Are there any patterns to note?">>)

(* generate_quality_insight: one call; any exception of the call or of the *)
(* parsing is logged and raised again; "if parsed:" is false for None and  *)
(* for the empty object.                                                   *)
generate_quality_insight(completion) ==
  LET parsed == parse_json_response(completion)
  IN  IF completion.kind = "raise" THEN [raised |-> TRUE, result |-> EmptyObj]
      ELSE IF parsed.kind = "raised" THEN [raised |-> TRUE, result |-> EmptyObj]
      ELSE IF parsed.kind = "dict" /\ DOMAIN parsed.obj # {}
           THEN [raised |-> FALSE, result |-> FillMissing(parsed.obj)]
      ELSE [raised |-> FALSE, result |-> ParseFallbackInsight]

MinObservationLen == 20

MaxObservationLen == 1000

DefaultContext ==
  <<"G","e","n","e","r","a","l"," ","p","r","o","c","e","s","s"," ","n","o","t","e">>

(* The length checks with the lower comparison off by one.                 *)
ObservationErrorOffByOne(text) ==
  IF text = <<>> THEN "observationText is required"
  ELSE IF Len(text) <= MinObservationLen
       THEN "observationText must be at least 20 characters"
  ELSE IF Len(text) > MaxObservationLen
       THEN "observationText must be at most 1000 characters"
  ELSE ""

(* The three length checks of quality_insight on the stripped text: the    *)
(* error message, or "" when the text passes.                              *)
ObservationError(text) ==
  IF text = <<>> THEN "observationText is required"
  ELSE IF Len(text) < MinObservationLen
       THEN "observationText must be at least 20 characters"
  ELSE IF Len(text) > MaxObservationLen
       THEN "observationText must be at most 1000 characters"
  ELSE ""

(* The fields of the request as the handler reads them.  "crashed" is the  *)
(* AttributeError of .get on a JSON array or of .strip on a non-string,    *)
(* which the handler's outer except turns into the 500 answer.             *)
QualityInput(req) ==
  LET obs == Get(req.observationText, Str(<<>>))
      ctx == Get(req.context, Str(DefaultContext))
  IN  IF req.body # "object" \/ obs.kind # "string" \/ ctx.kind # "string"
      THEN [crashed |-> TRUE, observation_text |-> <<>>, context |-> <<>>]
      ELSE [crashed |-> FALSE, observation_text |-> Strip(obs.chars),
            context |-> Strip(ctx.chars)]

(* Whether quality_insight gets as far as "if is_api_ready()" and finds it *)
(* true, so that generate_quality_insight is called.                       *)
QualityCallsGateway(key, req) ==
  LET in == QualityInput(req)
  IN  ~in.crashed /\ ObservationError(in.observation_text) = "" /\ is_api_ready(key)

(* quality_insight: the response.                                          *)
quality_insight(key, req, completion) ==
  LET in  == QualityInput(req)
      err == ObservationError(in.observation_text)
      gen == generate_quality_insight(completion)
  IN  IF in.crashed THEN Response(500, Obj1("error", JStr("Internal server error")))
      ELSE IF err # "" THEN Response(400, Obj1("error", JStr(err)))
      ELSE IF is_api_ready(key)
           THEN IF gen.raised THEN Response(200, ErrorFallbackInsight)
                ELSE Response(200, gen.result)
      ELSE Response(200, MockInsight)

(* Requests to POST /api/quality-insight.                                  *)
Padded(lead, n, trail) == Rep(" ", lead) \o Rep("a", n) \o Rep(" ", trail)

ObservationLens ==
  {0, 1, MinObservationLen - 1, MinObservationLen, MinObservationLen + 5,
   MaxObservationLen, MaxObservationLen + 1}

MaxPad == 1

ObservationTexts ==
  {Absent, NonStr} \cup
  {Str(Padded(l, n, t)) : <<l, n, t>> \in (0..MaxPad) \X ObservationLens \X (0..MaxPad)}

Contexts == {Absent, NonStr, Str(<<"E","t","c","h"," ">>)}

QualityRequests ==
  { [endpoint |-> "quality-insight", body |-> "object", observationText |-> o,
     context |-> c, completion |-> NoCall] : <<o, c>> \in ObservationTexts \X Contexts }
  \cup { [endpoint |-> "quality-insight", body |-> "array", observationText |-> Absent,
          context |-> Absent, completion |-> NoCall] }

QualityInsightRequest ==
  /\ Idle
  /\ \E req \in QualityRequests :
     \E completion \in (IF QualityCallsGateway(apiKey, req)
                        THEN StructuredCompletions ELSE {NoCall}) :
       /\ request' = [req EXCEPT !.completion = completion]
       /\ response' = quality_insight(apiKey, req, completion)
       /\ gatewayLog' = IF QualityCallsGateway(apiKey, req)
                        THEN <<Call("quality-insight", JStr("quality assistant, JSON only"))>>
                        ELSE <<>>
       /\ UNCHANGED <<apiKey, generator, reading, record>>

----------------------------------------------------------------------------
(* src/app.py: free-text modes.                                            *)

WarningGlyph == "(!)"

(* md.markdown: Python-Markdown turns a string into markup; it raises      *)
(* AttributeError on a value that is not a string, and the conversion can  *)
(* fail on a text (RecursionError).                                        *)
markdown(v) ==
  IF v.kind # "string" THEN [raised |-> TRUE, exc |-> "AttributeError", html |-> JNull]
  ELSE IF v.text = UnrenderableText
       THEN [raised |-> TRUE, exc |-> "RecursionError", html |-> JNull]
  ELSE [raised |-> FALSE, exc |-> "", html |-> JStr("<p>" \o v.text \o "</p>")]

(* analysis.replace("\n", "<br>"): a string method, so it raises on None.  *)
replace_newlines(v) ==
  IF v.kind = "string" THEN [raised |-> FALSE, exc |-> "", html |-> JStr(v.text \o "<br>")]
  ELSE [raised |-> TRUE, exc |-> "AttributeError", html |-> JNull]

(* The conversion without its fallback.                                    *)
render_markup_no_fallback(v) == markdown(v)

(* try: md.markdown(analysis, ...) except Exception: analysis.replace(...) *)
render_markup(v) == IF markdown(v).raised THEN replace_newlines(v) ELSE markdown(v)

(* The message content of a completion that did not raise.                 *)
ContentOf(completion) ==
  IF completion.kind = "text" THEN JStr(completion.text.prose) ELSE JNull

Body2(k1, v1, k2, v2) == (k1 :> v1) @@ (k2 :> v2)

Body3(k1, v1, k2, v2, k3, v3) == (k1 :> v1) @@ (k2 :> v2) @@ (k3 :> v3)

(* Uploaded files: the form part is absent, or present with a file name.   *)
NoFile == [present |-> FALSE, filename |-> <<>>]

File(name) == [present |-> TRUE, filename |-> name]

CsvSuffix == <<".", "c", "s", "v">>

FileNames == { <<>>,
               <<"o", "p", "s", ".", "c", "s", "v">>,
               <<"o", "p", "s", ".", "t", "x", "t">>,
               <<"c", "s", "v">>,
               <<"o", "p", "s", ".", "c", "s", "v", ".", "x">> }

Uploads == {NoFile} \cup {File(n) : n \in FileNames}

(* --- operations ------------------------------------------------------- *)

(* "if file and file.filename.endswith('.csv')": a FileStorage with an     *)
(* empty file name is false.                                               *)
OperationsAcceptsUpload(req) ==
  /\ req.method = "POST"
  /\ req.file.present
  /\ req.file.filename # <<>>
  /\ EndsWith(req.file.filename, CsvSuffix)

OperationsCallsGateway(key, req) ==
  OperationsAcceptsUpload(req) /\ req.csv = "rows" /\ is_api_ready(key)

OperationsMockAnalysis ==
  "### [MOCK MODE] Analysis\n- **Main:** 10 shipments found.\n- **Unusual:** SHP002 is flagged 'Delayed'.\n- **Top 3:** 1. Update logs, 2. Contact carrier, 3. Verify stock."

OperationsWarning(exc) ==
  WarningGlyph \o " **System Note:** Could not reach AI. Please check your API key or CSV format. (Error: "
    \o exc \o ")"

Shipments == JList(<<"SHP001", "SHP002">>)

(* The template context [shipments, analysis, analysis_html] at the end of *)
(* operations.                                                             *)
OperationsPage(shipments, analysis, analysis_html) ==
  Response(200, Body3("shipments", shipments, "analysis", analysis,
                      "analysis_html", IF analysis.kind = "null" THEN JNull ELSE analysis_html))

OperationsCaught(shipments, exc) ==
  OperationsPage(shipments, JStr(OperationsWarning(exc)),
                 markdown(JStr(OperationsWarning(exc))).html)

operations(key, req, completion) ==
  IF ~OperationsAcceptsUpload(req) THEN OperationsPage(JList(<<>>), JNull, JNull)
  ELSE IF req.csv # "rows" THEN OperationsCaught(JList(<<>>), "EmptyDataError")
  ELSE IF ~is_api_ready(key)
       THEN OperationsPage(Shipments, JStr(OperationsMockAnalysis),
                           markdown(JStr(OperationsMockAnalysis)).html)
  ELSE IF completion.kind = "raise" THEN OperationsCaught(Shipments, completion.exc)
  ELSE IF render_markup(ContentOf(completion)).raised
       THEN OperationsCaught(Shipments, "AttributeError")
  ELSE OperationsPage(Shipments, ContentOf(completion),
                      render_markup(ContentOf(completion)).html)

OperationsRequests ==
  { [endpoint |-> "operations", method |-> m, file |-> f, csv |-> c, completion |-> NoCall] :
      <<m, f, c>> \in {"GET", "POST"} \X Uploads \X {"rows", "unreadable"} }

OperationsRequest ==
  /\ Idle
  /\ \E req \in OperationsRequests :
     \E completion \in (IF OperationsCallsGateway(apiKey, req)
                        THEN FreeTextCompletions ELSE {NoCall}) :
       /\ request' = [req EXCEPT !.completion = completion]
       /\ response' = operations(apiKey, req, completion)
       /\ gatewayLog' = IF OperationsCallsGateway(apiKey, req)
                        THEN <<Call("operations", JStr("You are an AstraSemi Ops Expert."))>>
                        ELSE <<>>
       /\ UNCHANGED <<apiKey, generator, reading, record>>

(* --- api_interpret ---------------------------------------------------- *)

ModeSummary == <<"s","u","m","m","a","r","y">>

ModeEmail   == <<"e","m","a","i","l">>

ModeManager == <<"m","a","n","a","g","e","r">>

ModeKlingon ==
  <<"t","r","a","n","s","l","a","t","e","-","t","o","-","k","l","i","n","g","o","n">>

(* prompts.get(mode): the template of a known mode, None otherwise.        *)
PromptFor(mode) ==
  IF mode.kind # "string" THEN JNull
  ELSE IF mode.chars = ModeSummary
       THEN JStr("Simplify this AstraSemi log for a trainee. Use beginner-friendly language.")
  ELSE IF mode.chars = ModeEmail
       THEN JStr("Convert this log into a professional email for a department head.")
  ELSE IF mode.chars = ModeManager
       THEN JStr("Summarize this for a manager's daily update focusing on impact.")
  ELSE JNull

InterpretMock(mode) ==
  "**[MOCK " \o Join(Upper(mode.chars))
    \o "]**\nEverything looks operational. Proceed with standard protocol."

InterpretWarning(exc) == WarningGlyph \o " Authentication Error: " \o exc

InterpretCallsGateway(key, req) == req.body = "object" /\ is_api_ready(key)

api_interpret(key, req, completion) ==
  LET mode == Get(req.mode, Str(ModeSummary))
  IN  IF req.body # "object" THEN Unhandled("AttributeError")
      ELSE IF is_api_ready(key)
           THEN IF completion.kind = "raise"
                THEN Response(200, Obj1("analysis", JStr(InterpretWarning(completion.exc))))
                ELSE Response(200, Obj1("analysis", ContentOf(completion)))
      ELSE IF mode.kind # "string" THEN Unhandled("AttributeError")
      ELSE Response(200, Obj1("analysis", JStr(InterpretMock(mode))))

Modes == {Absent, NonStr, Str(ModeSummary), Str(ModeEmail), Str(ModeManager), Str(ModeKlingon)}

InterpretRequests ==
  { [endpoint |-> "interpret", body |-> "object", text |-> t, mode |-> m,
     completion |-> NoCall] :
      <<t, m>> \in {Absent, Str(<<"E","R","R"," ","4","2">>)} \X Modes }
  \cup { [endpoint |-> "interpret", body |-> "array", text |-> Absent, mode |-> Absent,
          completion |-> NoCall] }

InterpretRequest ==
  /\ Idle
  /\ \E req \in InterpretRequests :
     \E completion \in (IF InterpretCallsGateway(apiKey, req)
                        THEN FreeTextCompletions ELSE {NoCall}) :
       /\ request' = [req EXCEPT !.completion = completion]
       /\ response' = api_interpret(apiKey, req, completion)
       /\ gatewayLog' = IF InterpretCallsGateway(apiKey, req)
                        THEN <<Call("interpret", PromptFor(Get(req.mode, Str(ModeSummary))))>>
                        ELSE <<>>
       /\ UNCHANGED <<apiKey, generator, reading, record>>

(* --- api_identify ----------------------------------------------------- *)

IdentifyCallsGateway(key, req) == req.image /\ is_api_ready(key)

IdentifyMock ==
  "**[MOCK VISION]**\n\n**Object:** Silicon Wafer\n**Usage:** The base substrate for microchips.\n**Role:** It acts as the 'canvas' where circuits are printed using light."

IdentifyWarning(exc) == WarningGlyph \o " Vision API Error: " \o exc

IdentifyCaught(exc) ==
  Response(200, Body2("analysis", JStr(IdentifyWarning(exc)),
                      "analysis_html", markdown(JStr(IdentifyWarning(exc))).html))

api_identify(key, req, completion) ==
  IF ~req.image THEN Response(400, Obj1("analysis", JStr("No image uploaded.")))
  ELSE IF ~is_api_ready(key)
       THEN Response(200, Body2("analysis", JStr(IdentifyMock),
                                "analysis_html", markdown(JStr(IdentifyMock)).html))
  ELSE IF completion.kind = "raise" THEN IdentifyCaught(completion.exc)
  ELSE IF render_markup(ContentOf(completion)).raised THEN IdentifyCaught("AttributeError")
  ELSE Response(200, Body2("analysis", ContentOf(completion),
                           "analysis_html", render_markup(ContentOf(completion)).html))

IdentifyRequests ==
  { [endpoint |-> "identify", image |-> i, completion |-> NoCall] : i \in BOOLEAN }

IdentifyRequest ==
  /\ Idle
  /\ \E req \in IdentifyRequests :
     \E completion \in (IF IdentifyCallsGateway(apiKey, req)
                        THEN FreeTextCompletions ELSE {NoCall}) :
       /\ request' = [req EXCEPT !.completion = completion]
       /\ response' = api_identify(apiKey, req, completion)
       /\ gatewayLog' = IF IdentifyCallsGateway(apiKey, req)
                        THEN <<Call("identify", JNull)>>
                        ELSE <<>>
       /\ UNCHANGED <<apiKey, generator, reading, record>>

----------------------------------------------------------------------------
(* Numbers.  The readings and the risk figures are Python floats; the      *)
(* model computes them as exact fractions [n, d] in lowest terms, d > 0.   *)
(* round(x, k) is Python's: to the nearest multiple of 10^-k, a tie to the *)
(* even one; its result is kept as the integer count of 10^-k units.       *)

Abs(i) == IF i < 0 THEN -i ELSE i

RECURSIVE GCD(_, _)
GCD(a, b) == IF b = 0 THEN a ELSE GCD(b, a % b)

Frac(n, d) == LET g == GCD(Abs(n), d) IN [n |-> n \div g, d |-> d \div g]

Whole(i) == [n |-> i, d |-> 1]

FLess(a, b) == a.n * b.d < b.n * a.d

FAdd(a, b) ==
  LET l == (a.d \div GCD(a.d, b.d)) * b.d
  IN  Frac(a.n * (l \div a.d) + b.n * (l \div b.d), l)

FSub(a, b) == FAdd(a, [n |-> -b.n, d |-> b.d])

FMul(a, b) ==
  LET x == Frac(a.n, b.d)
      y == Frac(b.n, a.d)
  IN  [n |-> x.n * y.n, d |-> x.d * y.d]

FDiv(a, i) == FMul(a, Frac(1, i))

FMin(a, b) == IF FLess(b, a) THEN b ELSE a

FMax(a, b) == IF FLess(a, b) THEN b ELSE a

(* int(x): truncation toward zero.                                         *)
Trunc(a) == IF a.n >= 0 THEN a.n \div a.d ELSE -((-a.n) \div a.d)

Pow10(k) == IF k = 0 THEN 1 ELSE IF k = 1 THEN 10 ELSE IF k = 2 THEN 100 ELSE 1000

Round(a, k) ==
  LET n == a.n * Pow10(k)
      q == n \div a.d
      r == n - q * a.d
  IN  IF 2 * r < a.d THEN q
      ELSE IF 2 * r > a.d THEN q + 1
      ELSE IF q % 2 = 0 THEN q ELSE q + 1

----------------------------------------------------------------------------
(* src/app.py: the risk figures of one machine, as process_equipment_data  *)
(* and generate_equipment_data compute them.                               *)

MaxFailureProbability == Frac(95, 100)

(* failure_probability = min(0.95, 0.3*runtime_risk + 0.25*temp_risk       *)
(*                                 + 0.25*vibration_risk                   *)
(*                                 + 0.2*maintenance_risk)                 *)
FailureProbability(runtime_risk, temp_risk, vibration_risk, maintenance_risk) ==
  FMin(MaxFailureProbability,
       FAdd(FAdd(FMul(runtime_risk, Frac(3, 10)), FMul(temp_risk, Frac(25, 100))),
            FAdd(FMul(vibration_risk, Frac(25, 100)), FMul(maintenance_risk, Frac(2, 10)))))

(* temp_risk = max(0, (temperature - 80) / 40)                             *)
TempRisk(temperature) == FMax(Whole(0), FDiv(FSub(temperature, Whole(80)), 40))

(* vibration_risk = max(0, (vibration - 8) / 12)                           *)
VibrationRisk(vibration) == FMax(Whole(0), FDiv(FSub(vibration, Whole(8)), 12))

(* The health score on a scale that reaches 0 at failure_probability 1.    *)
HealthScorePercent(failure_probability) ==
  FMax(Whole(5), FSub(Whole(100), FMul(failure_probability, Whole(100))))

(* health_score = max(5, 100 - (failure_probability * 95))                 *)
HealthScore(failure_probability) ==
  FMax(Whole(5), FSub(Whole(100), FMul(failure_probability, Whole(95))))

(* The windows with a probability at a threshold put in the urgent one.    *)
MaintenanceWindowInclusive(failure_probability) ==
  IF ~FLess(failure_probability, Frac(7, 10)) THEN <<1, 7>>
  ELSE IF ~FLess(failure_probability, Frac(5, 10)) THEN <<7, 30>>
  ELSE IF ~FLess(failure_probability, Frac(3, 10)) THEN <<30, 90>>
  ELSE <<90, 180>>

(* The window np.random.uniform draws days_to_maintenance from.            *)
MaintenanceWindow(failure_probability) ==
  IF FLess(Frac(7, 10), failure_probability) THEN <<1, 7>>
  ELSE IF FLess(Frac(5, 10), failure_probability) THEN <<7, 30>>
  ELSE IF FLess(Frac(3, 10), failure_probability) THEN <<30, 90>>
  ELSE <<90, 180>>

(* np.random.uniform(low, high) for the generator's next double u in [0,1) *)
Uniform(low, high, u) == FAdd(Whole(low), FMul(Whole(high - low), u))

(* One entry of the equipment list.  The risk figures are stored rounded:  *)
(* failure_probability in thousandths, health_score and runtime_hours and  *)
(* temperature in tenths, vibration in hundredths; dates are day numbers.  *)
EquipmentRecord(id, hours, maintenance, temp, vib, codes, fp, health, days, now) ==
  [ machine_id              |-> id,
    runtime_hours           |-> Round(hours, 1),
    last_maintenance_days   |-> Round(maintenance, 0),
    temperature             |-> Round(temp, 1),
    vibration               |-> Round(vib, 2),
    error_codes             |-> codes,
    error_count             |-> Len(codes),
    failure_probability     |-> Round(fp, 3),
    health_score            |-> Round(health, 1),
    recommended_maintenance |-> now + Trunc(days),
    days_to_maintenance     |-> Trunc(days) ]

(* The body of the loop of process_equipment_data for one row of numeric   *)
(* readings: the local variables failure_probability and health_score and  *)
(* the entry appended.  u is the double the day offset is drawn with.      *)
process_row(row, u, now) ==
  LET runtime_risk     == FMin(Whole(1), FDiv(row.runtime_hours, 10000))
      maintenance_risk == FMin(Whole(1), FDiv(row.last_maintenance_days, 365))
      fp     == FailureProbability(runtime_risk, TempRisk(row.temperature),
                                   VibrationRisk(row.vibration), maintenance_risk)
      health == HealthScore(fp)
      window == MaintenanceWindow(fp)
      days   == Uniform(window[1], window[2], u)
  IN  [ failure_probability |-> fp,
        health_score        |-> health,
        days_to_maintenance |-> days,
        now                 |-> now,
        entry |-> EquipmentRecord(row.machine_id, row.runtime_hours,
                                  row.last_maintenance_days, row.temperature,
                                  row.vibration, row.error_codes, fp, health, days, now) ]

(* str(n).zfill(3)                                                         *)
ZFill3(n) ==
  IF n < 10 THEN "00" \o ToString(n) ELSE IF n < 100 THEN "0" \o ToString(n) ELSE ToString(n)

MachineId(i) == "MCH" \o ZFill3(i)

(* np.random.randint(low, high): an integer in low .. high-1.              *)
RandInt(low, high, u) == low + Trunc(FMul(Whole(high - low), u))

(* The body of the loop of generate_equipment_data for machine i.  d holds *)
(* what the generator delivers: the doubles in [0,1) behind each uniform   *)
(* draw (rh, dsm, vib, err, code[k], days) and the standard normal z       *)
(* behind np.random.normal(70, 15).                                        *)
generate_machine(i, d, now) ==
  LET runtime_hours    == Uniform(1000, 10000, d.rh)
      days_since       == Uniform(0, 365, d.dsm)
      temperature      == FMax(Whole(40), FMin(Whole(120),
                            FAdd(Whole(70), FMul(Whole(15), d.z))))
      runtime_factor   == FDiv(runtime_hours, 10000)
      vibration        == FMax(Whole(1), FMin(Whole(20),
                            FAdd(Whole(5), FMul(runtime_factor, Uniform(0, 10, d.vib)))))
      count            == Trunc(FMul(FAdd(FDiv(runtime_hours, 2000), FDiv(vibration, 5)),
                                     Uniform(0, 3, d.err)))
      error_count      == IF count < 0 THEN 0 ELSE count
      error_codes      == [k \in 1..error_count |-> "E" \o ZFill3(RandInt(100, 999, d.code[k]))]
      runtime_risk     == FDiv(runtime_hours, 10000)
      maintenance_risk == FDiv(days_since, 365)
      fp     == FailureProbability(runtime_risk, TempRisk(temperature),
                                   VibrationRisk(vibration), maintenance_risk)
      health == HealthScore(fp)
      window == MaintenanceWindow(fp)
      days   == Uniform(window[1], window[2], d.days)
  IN  [ failure_probability |-> fp,
        health_score        |-> health,
        days_to_maintenance |-> days,
        now                 |-> now,
        entry |-> EquipmentRecord(MachineId(i), runtime_hours, days_since, temperature,
                                  vibration, error_codes, fp, health, days, now) ]

NumMachines == 20

(* error_count is at most int((10000/2000 + 20/5) * 3).                    *)
MaxErrorCodes == 27

----------------------------------------------------------------------------
(* Inputs of the risk figures: rows of numeric readings as a CSV upload    *)
(* delivers them, and the generator's draws.                               *)

Clock == {20396, 20397}

DaySteps == 8

UnitGrid == {Frac(k, DaySteps) : k \in 0..(DaySteps - 1)}

UnitSamples == {Frac(0, 1), Frac(1, 2), Frac(9, 10)}

NormalSamples == {Whole(-3), Whole(0), Whole(2), Whole(4)}

Row(id, rh, lmd, temp, vib, codes) ==
  [machine_id |-> id, runtime_hours |-> Whole(rh), last_maintenance_days |-> Whole(lmd),
   temperature |-> Whole(temp), vibration |-> Whole(vib), error_codes |-> codes]

Rows ==
  { Row("MCH001", rh, lmd, temp, vib, codes) :
      <<rh, lmd, temp, vib, codes>> \in
         {-500, 0, 5000, 9500, 12000} \X {-30, 0, 300, 400} \X {70, 95, 130, 400}
           \X {5, 15, 30} \X {<<>>, <<"E101", "E202">>} }
  \cup { Row("MCH001", 10000, 365, 112, 8, <<>>), Row("MCH001", 9800, 365, 113, 8, <<>>) }

Draws ==
  { [rh |-> a, dsm |-> b, z |-> z, vib |-> c, err |-> e,
     code |-> [k \in 1..MaxErrorCodes |-> f], days |-> g] :
      <<a, b, z, c, e, f, g>> \in
         UnitSamples \X UnitSamples \X NormalSamples \X UnitSamples \X UnitSamples
           \X {Frac(0, 1), Frac(9, 10)} \X UnitGrid }

NoReading == [kind |-> "none"]

NoRecord == [kind |-> "none"]

ScoreInputs ==
  { [kind |-> "row", row |-> r, u |-> u, now |-> t] : <<r, u, t>> \in Rows \X UnitGrid \X Clock }
  \cup
  { [kind |-> "draws", machine |-> i, draws |-> d, now |-> t] :
      <<i, d, t>> \in {1, NumMachines} \X Draws \X {20396} }

(* process_equipment_data appends the entry of one row.                    *)
ProcessRow ==
  /\ reading.kind = "row"
  /\ record = NoRecord
  /\ record' = [kind |-> "processed"] @@ process_row(reading.row, reading.u, reading.now)
  /\ UNCHANGED <<apiKey, request, response, gatewayLog, generator, reading>>

(* generate_equipment_data appends the entry of one machine.               *)
GenerateMachine ==
  /\ reading.kind = "draws"
  /\ record = NoRecord
  /\ record' = [kind |-> "generated"]
                 @@ generate_machine(reading.machine, reading.draws, reading.now)
  /\ UNCHANGED <<apiKey, request, response, gatewayLog, generator, reading>>

----------------------------------------------------------------------------
(* src/app.py: the CSV text of /api/predictive-data.  A line is a sequence *)
(* of characters; the header is lines[0].strip().split(',') as a sequence  *)
(* of column names.                                                        *)

(* str.split(',', maxsplit): at most maxsplit cuts, at the leftmost commas *)
RECURSIVE SplitMax(_, _)
SplitMax(s, maxsplit) ==
  LET commas == {i \in 1..Len(s) : s[i] = ","}
      first  == CHOOSE i \in commas : \A j \in commas : i <= j
  IN  IF maxsplit = 0 \/ commas = {} THEN <<s>>
      ELSE <<SubSeq(s, 1, first - 1)>> \o SplitMax(SubSeq(s, first + 1, Len(s)), maxsplit - 1)

Digits == <<"0", "1", "2", "3", "4", "5", "6", "7", "8", "9">>

RECURSIVE Decimal(_)
Decimal(cs) ==
  IF cs = <<>> THEN 0
  ELSE 10 * Decimal(SubSeq(cs, 1, Len(cs) - 1))
         + ((CHOOSE d \in 1..10 : Digits[d] = cs[Len(cs)]) - 1)

(* float(cell) for a cell made of digits, "-", "." and letters: blanks     *)
(* around it are ignored, an optional "-", then digits with at most one    *)
(* "."; anything else raises ValueError.                                   *)
ParseFloat(cell) ==
  LET s      == Strip(cell)
      neg    == s # <<>> /\ s[1] = "-"
      body   == IF neg THEN Tail(s) ELSE s
      dots   == {i \in 1..Len(body) : body[i] = "."}
      digits == SelectSeq(body, LAMBDA c : c # ".")
      places == IF dots = {} THEN 0 ELSE Len(body) - (CHOOSE i \in dots : TRUE)
      ok     == /\ digits # <<>>
                /\ Cardinality(dots) <= 1
                /\ \A i \in 1..Len(digits) : \E d \in 1..10 : Digits[d] = digits[i]
  IN  IF ok THEN [raised |-> FALSE,
                  value |-> Frac((IF neg THEN -1 ELSE 1) * Decimal(digits), Pow10(places))]
      ELSE [raised |-> TRUE, value |-> Whole(0)]

(* The loop over lines[1:]: blank lines and lines with fewer than five     *)
(* fields are left out; the others are cut at their first five commas and  *)
(* padded with '' to six fields.                                           *)
RECURSIVE csv_data_rows(_)
csv_data_rows(lines) ==
  IF lines = <<>> THEN <<>>
  ELSE LET line  == Strip(Head(lines))
           parts == SplitMax(line, 5)
       IN  IF line = <<>> \/ Len(parts) < 5 THEN csv_data_rows(Tail(lines))
           ELSE <<IF Len(parts) < 6 THEN Append(parts, <<>>) ELSE parts>>
                  \o csv_data_rows(Tail(lines))

(* pd.DataFrame(data_rows, columns=header): ValueError when there are rows *)
(* and the header does not name six columns; otherwise each row maps the   *)
(* column names to its cells.                                              *)
DataFrame(data_rows, header) ==
  IF data_rows # <<>> /\ Len(header) # 6 THEN [raised |-> TRUE, rows |-> <<>>]
  ELSE [raised |-> FALSE,
        rows |-> [j \in 1..Len(data_rows) |->
                    [c \in {header[i] : i \in 1..Len(header)} |->
                       data_rows[j][CHOOSE i \in 1..Len(header) : header[i] = c]]]]

(* The whole cell taken as one code.                                      *)
ErrorCodesUnsplit(cell) == IF Strip(cell) = <<>> THEN <<>> ELSE <<Join(Strip(cell))>>

(* "[code.strip() for code in error_codes_str.split(',') if code.strip()]" *)
ErrorCodes(cell) ==
  LET codes == SplitMax(Strip(cell), Len(cell))
  IN  [k \in 1..Len(SelectSeq(codes, LAMBDA c : Strip(c) # <<>>)) |->
         Join(Strip(SelectSeq(codes, LAMBDA c : Strip(c) # <<>>)[k]))]

(* The readings process_equipment_data takes from row j of the frame with  *)
(* row.get(column, default); numeric is false when float() raises.         *)
EquipmentRow(row, j) ==
  LET cell(column, default) == IF column \in DOMAIN row THEN row[column] ELSE default
      runtime_hours == ParseFloat(cell("Runtime Hours", <<"0">>))
      maintenance   == ParseFloat(cell("Last Maintenance Days", <<"0">>))
      temperature   == ParseFloat(cell("Temperature", <<"7", "0">>))
      vibration     == ParseFloat(cell("Vibration", <<"5">>))
  IN  [ machine_id            |-> IF "Machine ID" \in DOMAIN row THEN Join(row["Machine ID"])
                                  ELSE "MCH" \o ZFill3(j),
        runtime_hours         |-> runtime_hours.value,
        last_maintenance_days |-> maintenance.value,
        temperature           |-> temperature.value,
        vibration             |-> vibration.value,
        error_codes           |-> ErrorCodes(cell("Error Codes", <<>>)),
        numeric               |-> ~(runtime_hours.raised \/ maintenance.raised
                                      \/ temperature.raised \/ vibration.raised) ]

----------------------------------------------------------------------------
(* src/app.py: predictive maintenance endpoints.                           *)

JRecs(xs) == [kind |-> "list", text |-> "", items |-> xs]

JObj(r) == [kind |-> "object", text |-> "", items |-> <<r>>]

(* np.random, the generator of the process.  It is seeded from the system  *)
(* at start; its draws are then any of the streams.  np.random.seed(42)    *)
(* puts it on one fixed stream, which it follows from then on: generator   *)
(* holds whether that happened and how far along the stream it is.  The    *)
(* n-th draw of a stream is the sample at position n of a rotation of      *)
(* these sequences.                                                        *)
UnitSeq == <<Frac(9, 10), Frac(0, 1), Frac(1, 2)>>

NormalSeq == <<Whole(4), Whole(0), Whole(-3), Whole(2)>>

Streams == 0..(Len(UnitSeq) - 1)

Entropy == [seeded |-> FALSE, position |-> 0]

Seeded(position) == [seeded |-> TRUE, position |-> position % Len(UnitSeq)]

(* The stream np.random.seed(42) starts.                                   *)
SeedStream == 0

(* The streams the next draws of a request can come from.                  *)
StreamsOf(g) == IF g.seeded THEN {g.position} ELSE Streams

UnitDraw(stream, n) == UnitSeq[((stream + n) % Len(UnitSeq)) + 1]

NormalDraw(stream, n) == NormalSeq[((stream + n) % Len(NormalSeq)) + 1]

(* generate_equipment_data(): the entries of MCH001 .. MCH020.             *)
generate_equipment_data(stream, now) ==
  [ i \in 1..NumMachines |->
      generate_machine(i,
                       [rh |-> UnitDraw(stream, i), dsm |-> UnitDraw(stream, 2 * i),
                        z |-> NormalDraw(stream, i), vib |-> UnitDraw(stream, i + 1),
                        err |-> UnitDraw(stream, i + 2),
                        code |-> [k \in 1..MaxErrorCodes |-> UnitDraw(stream, i + k)],
                        days |-> UnitDraw(stream, 3 * i)],
                       now).entry ]

(* process_equipment_data(df): float() raises ValueError on a cell that is *)
(* not a number; otherwise one entry per row.                              *)
RowsNumeric(rows) == \A j \in 1..Len(rows) : rows[j].numeric

process_equipment_data(rows, stream, now) ==
  [ j \in 1..Len(rows) |-> process_row(rows[j], UnitDraw(stream, j), now).entry ]

RECURSIVE SumHealth(_)
SumHealth(entries) ==
  IF entries = <<>> THEN 0 ELSE Head(entries).health_score + SumHealth(Tail(entries))

(* The summary and the 12-month trend series of api_predictive_data.       *)
TrendMonths == 12

Summary(entries, now) ==
  [ total_machines       |-> Len(entries),
    high_risk_count      |-> Cardinality({j \in 1..Len(entries) :
                                            entries[j].failure_probability > 700}),
    average_health_score |-> Round(Frac(SumHealth(entries), 10 * Len(entries)), 1),
    last_updated         |-> now ]

(* trend_data after reverse(): oldest first.  The entry of i months ago    *)
(* holds the day now - 30*i, round(uniform(0.2, 0.6), 3) in thousandths    *)
(* and randint(0, 5).                                                      *)
Trends(stream, first, now) ==
  [ p \in 1..TrendMonths |->
      LET i == TrendMonths - p
      IN  [ month |-> now - 30 * i,
            avg_failure_probability |->
              Round(FAdd(Frac(2, 10), FMul(Frac(4, 10), UnitDraw(stream, first + 2 * i))), 3),
            incidents |-> RandInt(0, 5, UnitDraw(stream, first + 2 * i + 1)) ] ]

PredictiveData(entries, stream, now) ==
  Response(200, Body3("equipment", JRecs(entries),
                      "summary", JObj(Summary(entries, now)),
                      "trends", JRecs(Trends(stream, Len(entries) + 1, now))))

ErrorResponse(status, message) == Response(status, Obj1("error", JStr(message)))

(* The frame built from the text of a CSV file and the readings of its     *)
(* rows; raised when pd.DataFrame or a float() raises ValueError.          *)
CsvReadings(header, lines) ==
  LET frame == DataFrame(csv_data_rows(lines), header)
      rows  == [j \in 1..Len(frame.rows) |-> EquipmentRow(frame.rows[j], j)]
  IN  [raised |-> frame.raised \/ ~RowsNumeric(rows), rows |-> rows]

(* api_predictive_data.  req.header and req.lines are the text of the      *)
(* upload (POST) or of the default CSV files that could be read (GET).     *)
api_predictive_data(req) ==
  LET csv == CsvReadings(req.header, req.lines)
  IN  IF req.method = "POST"
      THEN IF ~req.file.present THEN ErrorResponse(400, "No CSV file uploaded")
           ELSE IF req.file.filename = <<>> THEN ErrorResponse(400, "No file selected")
           ELSE IF ~EndsWith(req.file.filename, CsvSuffix)
                THEN ErrorResponse(400, "File must be a CSV file")
           ELSE IF ~req.decodable
                THEN ErrorResponse(500, "Failed to process CSV file: UnicodeDecodeError")
           ELSE IF csv.raised
                THEN ErrorResponse(500, "Failed to process CSV file: ValueError")
           ELSE IF csv.rows = <<>>
                THEN ErrorResponse(400, "No valid equipment data found in CSV")
           ELSE PredictiveData(process_equipment_data(csv.rows, req.stream, req.now),
                               req.stream, req.now)
      ELSE IF csv.rows # <<>> /\ ~csv.raised
           THEN PredictiveData(process_equipment_data(csv.rows, req.stream, req.now),
                               req.stream, req.now)
           ELSE PredictiveData(generate_equipment_data(SeedStream, req.now),
                               SeedStream, req.now)

(* The draws generate_equipment_data takes: six per machine and one per    *)
(* error code.  After np.random.seed(42) they are the same on every call.  *)
GeneratedDraws ==
  LET entries == generate_equipment_data(SeedStream, 0)
      taken[i \in 0..NumMachines] ==
        IF i = 0 THEN 0 ELSE taken[i - 1] + 6 + entries[i].error_count
  IN  taken[NumMachines]

(* The generator after api_predictive_data, csv being the readings of the  *)
(* file.  The fallback seeds it and draws the machines and the trend       *)
(* series; the other paths draw one offset per row, up to the row float()  *)
(* raises on, and the trend series.                                        *)
GeneratorAfterRows(g, req, csv) ==
  LET bad     == {j \in 1..Len(csv.rows) : ~csv.rows[j].numeric}
      offsets == IF bad = {} THEN Len(csv.rows)
                 ELSE (CHOOSE j \in bad : \A k \in bad : j <= k) - 1
      rejected == \/ ~req.file.present \/ req.file.filename = <<>>
                  \/ ~EndsWith(req.file.filename, CsvSuffix) \/ ~req.decodable
  IN  IF req.method = "GET" /\ (csv.rows = <<>> \/ csv.raised)
      THEN Seeded(SeedStream + GeneratedDraws + 2 * TrendMonths)
      ELSE IF ~g.seeded \/ (req.method = "POST" /\ rejected) THEN g
      ELSE IF csv.raised \/ csv.rows = <<>> THEN Seeded(g.position + offsets)
      ELSE Seeded(g.position + offsets + 2 * TrendMonths)

GeneratorAfterData(g, req) ==
  GeneratorAfterRows(g, req, CsvReadings(req.header, req.lines))

MaxRows == 1

StandardHeader ==
  <<"Machine ID", "Runtime Hours", "Last Maintenance Days", "Temperature", "Vibration",
    "Error Codes">>

Headers == {StandardHeader, SubSeq(StandardHeader, 1, 5)}

(* MCH001,9500,300,95,15,E101,E202 and five more lines: no sixth field; an *)
(* empty code between two codes and a carriage return; a reading that is   *)
(* not a number; four fields; blanks only.                                 *)
ScenarioLine ==
  <<"M","C","H","0","0","1",",","9","5","0","0",",","3","0","0",",","9","5",",","1","5",
    ",","E","1","0","1",",","E","2","0","2">>

UploadLines ==
  { ScenarioLine,
    <<"M","C","H","0","0","2",",","0",",","0",",","7","0",",","5">>,
    <<"M","C","H","0","0","3",",","1","2","0","0","0",",","4","0","0",",","1","3","0",
      ",","3","0",","," ","E","7",",",",","E","8"," ","\r">>,
    <<"M","C","H","0","0","4",",","0",",","0",",","h","o","t",",","5",",","E","1">>,
    <<"M","C","H","0","0","5",",","1",",","2",",","3">>,
    <<" ", " ">> }

RECURSIVE SeqsUpTo(_, _)
SeqsUpTo(S, n) ==
  IF n = 0 THEN {<<>>}
  ELSE LET shorter == SeqsUpTo(S, n - 1)
       IN  shorter \cup {Append(s, x) : <<s, x>> \in {t \in shorter \X S : Len(t[1]) = n - 1}}

PredictiveDataRequests ==
  { [endpoint |-> "predictive-data", method |-> "POST", file |-> f, decodable |-> d,
     header |-> h, lines |-> lines, stream |-> k, now |-> 20396] :
      <<f, d, h, lines, k>> \in
         Uploads \X BOOLEAN \X Headers \X SeqsUpTo(UploadLines, MaxRows) \X Streams }
  \cup
  { [endpoint |-> "predictive-data", method |-> "GET", file |-> NoFile, decodable |-> TRUE,
     header |-> StandardHeader, lines |-> lines, stream |-> k, now |-> 20396] :
      <<lines, k>> \in SeqsUpTo(UploadLines, MaxRows) \X Streams }

PredictiveDataRequest ==
  /\ Idle
  /\ \E req \in PredictiveDataRequests :
       /\ req.stream \in StreamsOf(generator)
       /\ request' = req
       /\ response' = api_predictive_data(req)
       /\ gatewayLog' = <<>>
       /\ generator' = GeneratorAfterData(generator, req)
       /\ UNCHANGED <<apiKey, reading, record>>

(* --- api_predictive_analysis ------------------------------------------ *)

(* next((m for m in equipment_data if m['machine_id'] == machine_id), None) *)
FindMachine(equipment_data, machine_id) ==
  LET hits == {i \in 1..Len(equipment_data) : equipment_data[i].machine_id = machine_id}
  IN  IF hits = {} THEN <<>>
      ELSE <<equipment_data[CHOOSE i \in hits : \A j \in hits : i <= j]>>

PredictiveWarning(exc) == WarningGlyph \o " Analysis Error: " \o exc

(* The except branch with the exception let through instead.               *)
PredictiveUncaught(exc) == Unhandled(exc)

(* except Exception as e: the warning text and its markup, status 200.     *)
PredictiveCaught(exc) ==
  Response(200, Body2("analysis", JStr(PredictiveWarning(exc)),
                      "analysis_html", markdown(JStr(PredictiveWarning(exc))).html))

(* The machine looked up on the live path; <<>> when there is none.        *)
PredictiveLookup(req) ==
  LET machine_id == Get(req.machine_id, Str(<<>>))
  IN  IF machine_id.kind # "string" THEN <<>>
      ELSE FindMachine(generate_equipment_data(SeedStream, req.now), Join(machine_id.chars))

PredictiveCallsGateway(key, req) ==
  req.body = "object" /\ is_api_ready(key) /\ PredictiveLookup(req) # <<>>

(* On the mock path the f-string reads machine_data, a local variable that *)
(* is assigned on the live path only: UnboundLocalError leaves the view.   *)
api_predictive_analysis(key, req, completion) ==
  IF req.body # "object" THEN Unhandled("AttributeError")
  ELSE IF ~is_api_ready(key) THEN Unhandled("UnboundLocalError")
  ELSE IF PredictiveLookup(req) = <<>> THEN ErrorResponse(404, "Machine not found")
  ELSE IF completion.kind = "raise" THEN PredictiveCaught(completion.exc)
  ELSE IF markdown(ContentOf(completion)).raised
       THEN PredictiveCaught(markdown(ContentOf(completion)).exc)
  ELSE Response(200, Body3("analysis", ContentOf(completion),
                           "analysis_html", markdown(ContentOf(completion)).html,
                           "machine_data", JObj(PredictiveLookup(req)[1])))

(* The generator after api_predictive_analysis: the live path calls        *)
(* generate_equipment_data, which seeds it and draws the machines.         *)
GeneratorAfterAnalysis(g, key, req) ==
  IF req.body = "object" /\ is_api_ready(key)
  THEN Seeded(SeedStream + GeneratedDraws)
  ELSE g

MachineIdTexts ==
  { Absent, NonStr,
    Str(<<"M","C","H","0","0","1">>), Str(<<"M","C","H","0","2","0">>),
    Str(<<"M","C","H","0","2","1">>), Str(<<"m","c","h","0","0","1">>) }

PredictiveAnalysisRequests ==
  { [endpoint |-> "predictive-analysis", body |-> "object", machine_id |-> m,
     now |-> 20396, completion |-> NoCall] : m \in MachineIdTexts }
  \cup { [endpoint |-> "predictive-analysis", body |-> "array", machine_id |-> Absent,
          now |-> 20396, completion |-> NoCall] }

PredictiveAnalysisRequest ==
  /\ Idle
  /\ \E req \in PredictiveAnalysisRequests :
     \E completion \in (IF PredictiveCallsGateway(apiKey, req)
                        THEN FreeTextCompletions ELSE {NoCall}) :
       /\ request' = [req EXCEPT !.completion = completion]
       /\ response' = api_predictive_analysis(apiKey, req, completion)
       /\ gatewayLog' = IF PredictiveCallsGateway(apiKey, req)
                        THEN <<Call("predictive-analysis",
                                    JStr("You are a semiconductor equipment reliability expert. Provide concise, actionable maintenance recommendations."))>>
                        ELSE <<>>
       /\ generator' = GeneratorAfterAnalysis(generator, apiKey, req)
       /\ UNCHANGED <<apiKey, reading, record>>

----------------------------------------------------------------------------
(* parse_json_response on its own: a text is given and parsed.             *)

MaxTokens == 5

RECURSIVE TokenSeqs(_)
TokenSeqs(n) ==
  IF n = 0 THEN {<<>>}
  ELSE TokenSeqs(n - 1)
         \cup {Append(t, k) : <<t, k>> \in {x \in TokenSeqs(n - 1) \X TokenKinds : Len(x[1]) = n - 1}}

TextInputs == { [kind |-> "text", tokens |-> t] : t \in TokenSeqs(MaxTokens) }

ParseText ==
  /\ reading.kind = "text"
  /\ record = NoRecord
  /\ record' = [kind |-> "parsed",
                result |-> parse_json_response(
                             Content([tokens |-> reading.tokens, obj |-> WrittenObject,
                                      prose |-> ""]))]
  /\ UNCHANGED <<apiKey, request, response, gatewayLog, generator, reading>>

----------------------------------------------------------------------------
(* The specification.                                                      *)

Init ==
  /\ apiKey \in ApiKeys
  /\ request = NoRequest
  /\ response = NoResponse
  /\ gatewayLog = <<>>
  /\ generator = Entropy
  /\ reading = NoReading
  /\ record = NoRecord

Next ==
  \/ OperationsRequest
  \/ PredictiveAnalysisRequest
  \/ InterpretRequest
  \/ IdentifyRequest
  \/ PredictiveDataRequest
  \/ QualityInsightRequest
  \/ Deliver

Spec == Init /\ [][Next]_vars

(* The risk figures on their own: a row or a set of draws is given, and   *)
(* the scorer is applied to it.                                            *)
ScoreInit ==
  /\ apiKey = NoKey
  /\ request = NoRequest
  /\ response = NoResponse
  /\ gatewayLog = <<>>
  /\ generator = Entropy
  /\ reading \in ScoreInputs
  /\ record = NoRecord

ScoreNext ==
  \/ ProcessRow
  \/ GenerateMachine

SpecScore == ScoreInit /\ [][ScoreNext]_vars

(* parse_json_response on its own.                                        *)
ParseInit ==
  /\ apiKey = NoKey
  /\ request = NoRequest
  /\ response = NoResponse
  /\ gatewayLog = <<>>
  /\ generator = Entropy
  /\ reading \in TextInputs
  /\ record = NoRecord

ParseNext == ParseText

SpecParse == ParseInit /\ [][ParseNext]_vars

----------------------------------------------------------------------------
(* Vocabulary of the properties.                                           *)

Handled(endpoint) == request.endpoint = endpoint

ClientError == response.status \in 400..499

Success == response.status \in 200..299

Keys == DOMAIN response.body

(* The request's fields have the JSON types the endpoint documents.        *)
QualityWellFormed ==
  /\ request.body = "object"
  /\ request.observationText.kind \in {"absent", "string"}
  /\ request.context.kind \in {"absent", "string"}

RawLength == Len(request.observationText.chars)

StrippedLength == Len(Strip(request.observationText.chars))

QualityValid ==
  /\ QualityWellFormed
  /\ StrippedLength >= MinObservationLen
  /\ StrippedLength <= MaxObservationLen

IsQualityInsight(body) == QIFields \subseteq DOMAIN body

(* C1 as stated: the length of observationText decides at 20 and 1000.     *)
C1_LengthDecides ==
  (Handled("quality-insight") /\ QualityWellFormed /\ request.observationText.kind = "string")
    => /\ RawLength \in {MinObservationLen - 1, MaxObservationLen + 1}
            => response.status = 400
       /\ RawLength \in {MinObservationLen, MaxObservationLen}
            => (response.status = 200 /\ IsQualityInsight(response.body))

(* C1: for a POST /api/quality-insight request whose body is a JSON object *)
(* with string fields, the length of observationText after stripping       *)
(* leading and trailing whitespace decides: below 20 (19 included) and     *)
(* above 1000 (1001 included) the outcome is 400, from 20 to 1000 (both    *)
(* included) it is 200 with a QualityInsight, with or without credential.  *)
C1_StrippedLengthDecides ==
  (Handled("quality-insight") /\ QualityWellFormed)
    => /\ (StrippedLength < MinObservationLen \/ StrippedLength > MaxObservationLen)
            => response.status = 400
       /\ (StrippedLength >= MinObservationLen /\ StrippedLength <= MaxObservationLen)
            => (response.status = 200 /\ IsQualityInsight(response.body))

(* A text of 1001 characters, 1000 after stripping, has been accepted.     *)
C1_Witness ==
  /\ Handled("quality-insight") /\ QualityWellFormed
  /\ RawLength = MaxObservationLen + 1
  /\ StrippedLength = MaxObservationLen
  /\ response.status = 200 /\ IsQualityInsight(response.body)

(* C2: every QualityInsight returned by POST /api/quality-insight carries  *)
(* the canonical disclaimer sentence, whatever the LLM produced.           *)
C2_DisclaimerAlwaysCanonical ==
  (Handled("quality-insight") /\ response.status = 200)
    => response.body["disclaimer"] = JStr(Disclaimer)

(* C3: an interpret request with an unrecognized mode ends in an error     *)
(* outcome: no analysis text is returned and no prompt reaches the LLM.    *)
UnknownMode ==
  /\ Handled("interpret") /\ request.body = "object"
  /\ request.mode.kind = "string"
  /\ request.mode.chars \notin {ModeSummary, ModeEmail, ModeManager}

C3_UnknownModeRejected ==
  UnknownMode => (ClientError /\ "analysis" \notin Keys /\ gatewayLog = <<>>)

(* C4: every predictive-analysis request ends in a success with analysis,  *)
(* markup and the machine's record (known machine) or in 404 (unknown      *)
(* machine), and never in 500 or an uncaught exception.                    *)
PredictiveWellFormed ==
  /\ Handled("predictive-analysis") /\ request.body = "object"
  /\ request.machine_id.kind \in {"absent", "string"}

KnownMachine ==
  \E i \in 1..NumMachines : Join(request.machine_id.chars) = MachineId(i)

C4_PredictiveAnalysisOutcomes ==
  PredictiveWellFormed
    => /\ response.status # 500 /\ ~response.uncaught
       /\ KnownMachine => /\ response.status = 200
                          /\ Keys = {"analysis", "analysis_html", "machine_data"}
                          /\ response.body["machine_data"].kind = "object"
       /\ ~KnownMachine => response.status = 404

(* C5: a validation failure ends the request with a 4xx outcome and the    *)
(* LLM is never called in that request.                                    *)
BadUpload ==
  /\ request.method = "POST"
  /\ (~request.file.present \/ ~EndsWith(request.file.filename, CsvSuffix))

ValidationFailure ==
  \/ Handled("operations") /\ BadUpload
  \/ Handled("predictive-data") /\ BadUpload
  \/ Handled("identify") /\ ~request.image
  \/ Handled("quality-insight") /\ QualityWellFormed /\ ~QualityValid
  \/ PredictiveWellFormed /\ ~KnownMachine

C5_ValidationFailureIsClientError ==
  ValidationFailure => (ClientError /\ gatewayLog = <<>>)


(* C6: when the request passed validation and the LLM call or the          *)
(* normalization of its output fails, the request still ends in a 2xx      *)
(* outcome carrying a warning text or a fallback QualityInsight; the       *)
(* failure never ends in 4xx or 5xx and never leaves the handler.          *)
GatewayCalled == gatewayLog # <<>>

Unparsed ==
  \/ parse_json_response(request.completion).kind # "dict"
  \/ DOMAIN parse_json_response(request.completion).obj = {}

DownstreamFailure ==
  /\ GatewayCalled
  /\ \/ request.completion.kind = "raise"
     \/ request.completion.kind = "null" /\ ~Handled("interpret")
     \/ Handled("quality-insight") /\ request.completion.kind = "text" /\ Unparsed

Exceptions == GatewayErrors \cup {"AttributeError", "RecursionError"}

WarningTexts ==
  {OperationsWarning(e) : e \in Exceptions} \cup {InterpretWarning(e) : e \in Exceptions}
    \cup {IdentifyWarning(e) : e \in Exceptions} \cup {PredictiveWarning(e) : e \in Exceptions}

ErrorFlavoured ==
  IF Handled("quality-insight")
  THEN response.body \in {ErrorFallbackInsight, ParseFallbackInsight}
  ELSE /\ "analysis" \in Keys
       /\ response.body["analysis"].kind = "string"
       /\ response.body["analysis"].text \in WarningTexts

C6_DownstreamFailureStillSucceeds ==
  DownstreamFailure => (Success /\ ~response.uncaught /\ ErrorFlavoured)

(* The completion call of a predictive-analysis request raised and the     *)
(* request ended in 200 with the warning text.                             *)
C6_Witness ==
  /\ Handled("predictive-analysis")
  /\ request.completion.kind = "raise"
  /\ response.status = 200
  /\ response.body["analysis"].text \in WarningTexts

(* C7: without a usable credential the LLM is never called and the         *)
(* response is the mode's mock payload; the LLM is called only when        *)
(* is_api_ready() is true.                                                 *)
PassedValidation ==
  \/ Handled("operations") /\ OperationsAcceptsUpload(request) /\ request.csv = "rows"
  \/ Handled("interpret") /\ request.body = "object" /\ request.mode.kind \in {"absent", "string"}
  \/ Handled("identify") /\ request.image
  \/ Handled("quality-insight") /\ QualityValid
  \/ PredictiveWellFormed /\ KnownMachine

MockPayload ==
  /\ Success
  /\ Handled("operations") => response.body["analysis"] = JStr(OperationsMockAnalysis)
  /\ Handled("interpret")
       => response.body["analysis"] = JStr(InterpretMock(Get(request.mode, Str(ModeSummary))))
  /\ Handled("identify") => response.body["analysis"] = JStr(IdentifyMock)
  /\ Handled("quality-insight") => response.body = MockInsight
  /\ Handled("predictive-analysis")
       => (Keys = {"analysis", "analysis_html", "machine_data"}
           /\ response.body["analysis"].kind = "string")

C7_NoCredentialMeansMock ==
  /\ GatewayCalled => is_api_ready(apiKey)
  /\ (~Idle /\ ~is_api_ready(apiKey))
       => (gatewayLog = <<>> /\ (PassedValidation => MockPayload))

(* C8: per mode, the mock response and every 2xx live response have the    *)
(* same top-level keys with values of the same shape.                      *)
Shape(body) == [k \in DOMAIN body |-> body[k].kind]

TextShape == ("analysis" :> "string")

MarkupShape == TextShape @@ ("analysis_html" :> "string")

ModeShape ==
  CASE Handled("operations")          -> MarkupShape @@ ("shipments" :> "list")
    [] Handled("interpret")           -> TextShape
    [] Handled("identify")            -> MarkupShape
    [] Handled("quality-insight")     -> Shape(MockInsight)
    [] Handled("predictive-analysis") -> MarkupShape @@ ("machine_data" :> "object")

C8_MockAndLiveSameShape ==
  (PassedValidation /\ Success) => Shape(response.body) = ModeShape

(* C9: without a credential a valid observation gets 200 with the mock     *)
(* QualityInsight: riskLevel LOW, the canonical disclaimer, non-empty      *)
(* keyPoints and actions, the same payload whatever the observation and    *)
(* the context.                                                            *)
MockQualityPayload ==
  Insight("LOW",
          "The observation appears routine. Continue monitoring and follow standard procedures.",
          <<"Observation has been noted", "No immediate action required",
            "Continue standard monitoring">>,
          <<"Document the observation", "Continue normal operations", "Report any changes">>,
          <<"Is this a recurring observation?", "Are there any patterns to note?">>)

C9_MockQualityInsight ==
  (Handled("quality-insight") /\ QualityValid /\ ~is_api_ready(apiKey))
    => /\ response.status = 200
       /\ Keys = QIFields
       /\ response.body["riskLevel"] = JStr("LOW")
       /\ response.body["disclaimer"] = JStr(Disclaimer)
       /\ Len(response.body["keyPoints"].items) > 0
       /\ Len(response.body["actions"].items) > 0
       /\ response.body = MockQualityPayload

(* No credential, an observation of 25 characters, the mock payload.       *)
C9_Witness ==
  /\ Handled("quality-insight") /\ QualityValid /\ ~apiKey.present
  /\ StrippedLength = MinObservationLen + 5
  /\ response.status = 200
  /\ response.body["riskLevel"] = JStr("LOW")

(* C10 as stated: the stored health_score (tenths) and the stored          *)
(* failure_probability (thousandths) satisfy health_score = 100 - 95 *     *)
(* failure_probability exactly.                                            *)
Scored == record.kind # "none"

C10_StoredExact ==
  Scored => 100 * record.entry.health_score = 100000 - 95 * record.entry.failure_probability

(* C10: for every entry of process_equipment_data and                      *)
(* generate_equipment_data, health_score = 100 - 95 * failure_probability  *)
(* holds exactly for the values computed before rounding; the record       *)
(* stores them rounded to 1 and to 3 decimals, and the stored values       *)
(* satisfy the equation to within 0.0975.                                  *)
C10_ExactBeforeRounding ==
  Scored
    => /\ record.health_score
            = FSub(Whole(100), FMul(Whole(95), record.failure_probability))
       /\ record.entry.health_score = Round(record.health_score, 1)
       /\ record.entry.failure_probability = Round(record.failure_probability, 3)
       /\ Abs(100 * record.entry.health_score
                - (100000 - 95 * record.entry.failure_probability)) <= 97

(* The row MCH001,9500,300,95,15: failure_probability 0.689 and            *)
(* health_score 34.5 are stored, and 100 - 95 * 0.689 = 34.545.            *)
C10_Witness ==
  /\ record.kind = "processed"
  /\ reading.row.runtime_hours = Whole(9500)
  /\ reading.row.last_maintenance_days = Whole(300)
  /\ reading.row.temperature = Whole(95)
  /\ reading.row.vibration = Whole(15)
  /\ record.entry.failure_probability = 689
  /\ record.entry.health_score = 345

(* C11: every entry of process_equipment_data stores failure_probability   *)
(* in [0, 0.95] and health_score in [5, 100], whatever the numeric         *)
(* readings of the row (far above the thresholds, or below zero), and the  *)
(* row with temperature 70, vibration 5, runtime_hours 0 and               *)
(* last_maintenance_days 0 stores 0.0 and 100.0.                           *)
BaselineRow ==
  /\ reading.row.runtime_hours = Whole(0)
  /\ reading.row.last_maintenance_days = Whole(0)
  /\ reading.row.temperature = Whole(70)
  /\ reading.row.vibration = Whole(5)

C11_RiskFiguresInRange ==
  record.kind = "processed"
    => /\ record.entry.failure_probability \in 0..950
       /\ record.entry.health_score \in 50..1000
       /\ BaselineRow => /\ record.entry.failure_probability = 0
                         /\ record.entry.health_score = 1000

(* C12: on the CSV upload path of /api/predictive-data every line with at  *)
(* least five comma-separated fields gives one entry, in order, and every  *)
(* other line gives none; the entry's error codes are what follows the     *)
(* fifth comma, cut at its commas: the line MCH001,9500,300,95,15,E101,E202*)
(* gives error_codes ["E101", "E202"] and error_count 2, a line with five  *)
(* fields gives an empty list, and error_count is the length of            *)
(* error_codes in every entry.                                             *)
FieldCount(line) ==
  IF Strip(line) = <<>> THEN 0
  ELSE 1 + Cardinality({i \in 1..Len(Strip(line)) : Strip(line)[i] = ","})

UploadServed ==
  /\ Handled("predictive-data")
  /\ request.method = "POST"
  /\ response.status = 200

C13_StoredSelectsWindow ==
  Scored
    => LET fp   == record.entry.failure_probability
           days == record.entry.days_to_maintenance
       IN  /\ fp > 700 => days \in 1..7
           /\ (fp > 500 /\ fp <= 700) => days \in 7..30
           /\ (fp > 300 /\ fp <= 500) => days \in 30..90
           /\ fp <= 300 => days \in 90..180
           /\ record.entry.recommended_maintenance = record.now + days

(* C13: the failure probability as computed, before it is rounded for the  *)
(* record, selects the window with strict comparisons (a value equal to    *)
(* 0.7, 0.5 or 0.3 selects the less urgent window); days_to_maintenance is *)
(* the whole part of a draw from [low, high), so it lies in low..high-1,   *)
(* and recommended_maintenance is the current date plus that many days.    *)
C13_ComputedSelectsWindow ==
  Scored
    => LET fp   == record.failure_probability
           days == record.entry.days_to_maintenance
       IN  /\ FLess(Frac(7, 10), fp) => days \in 1..6
           /\ (FLess(Frac(5, 10), fp) /\ ~FLess(Frac(7, 10), fp)) => days \in 7..29
           /\ (FLess(Frac(3, 10), fp) /\ ~FLess(Frac(5, 10), fp)) => days \in 30..89
           /\ ~FLess(Frac(3, 10), fp) => days \in 90..179
           /\ record.entry.recommended_maintenance = record.now + days

(* The row 10000,365,112,8 has failure_probability exactly 0.7 and gets an *)
(* offset of the window (7, 30).                                           *)
C13_Witness ==
  /\ record.kind = "processed"
  /\ record.failure_probability = Frac(7, 10)
  /\ record.entry.days_to_maintenance \in 7..29
  /\ record.entry.recommended_maintenance = reading.now + record.entry.days_to_maintenance

(* C14: parse_json_response returns the object of the fenced block when    *)
(* there is one and it parses; otherwise the object of the first balanced  *)
(* {...} span of the text when that parses; otherwise None.  A text made   *)
(* of one object followed by words and another brace gives that object.    *)
FirstBalancedSpan(t) ==
  LET opens  == {i \in 1..Len(t) : t[i] = "{"}
      first  == CHOOSE i \in opens : \A k \in opens : i <= k
      depth(j) == Cardinality({i \in first..j : t[i] = "{"})
                    - Cardinality({i \in first..j : t[i] = "}"})
      closes == {j \in first..Len(t) : depth(j) = 0}
      last   == CHOOSE j \in closes : \A k \in closes : j <= k
  IN  IF opens = {} \/ closes = {} THEN <<>> ELSE SubSeq(t, first, last)

C14_FirstBalancedSpan ==
  record.kind = "parsed"
    => LET fenced == FencedBlock(reading.tokens)
           first  == FirstBalancedSpan(reading.tokens)
       IN  IF fenced # <<>> /\ json_loads(fenced)
           THEN record.result.kind = "dict" /\ record.result.source = fenced
           ELSE IF first # <<>> /\ json_loads(first)
           THEN record.result.kind = "dict" /\ record.result.source = first
           ELSE record.result.kind = "none"

(* C15: every 200 response of POST /api/quality-insight has the six        *)
(* fields riskLevel, riskInterpretation, keyPoints, actions,               *)
(* clarifyingQuestions and disclaimer, whatever text the LLM returned, and *)
(* its riskLevel is one of LOW, MEDIUM, HIGH.                              *)
RiskLevels == {JStr("LOW"), JStr("MEDIUM"), JStr("HIGH")}

C15_SchemaConformance ==
  (Handled("quality-insight") /\ response.status = 200)
    => /\ QIFields \subseteq Keys
       /\ response.body["riskLevel"] \in RiskLevels

(* C16: the page of the operations handler always carries analysis and     *)
(* analysis_html; analysis_html is null exactly when analysis is null, a   *)
(* text of analysis comes with a text of markup, and when the completion   *)
(* returned a text, analysis is that text.                                 *)
C16_MarkupAccompaniesText ==
  Handled("operations")
    => /\ response.status = 200 /\ ~response.uncaught
       /\ {"analysis", "analysis_html"} \subseteq Keys
       /\ (response.body["analysis_html"] = JNull) <=> (response.body["analysis"] = JNull)
       /\ response.body["analysis"] # JNull
            => /\ response.body["analysis"].kind = "string"
               /\ response.body["analysis_html"].kind = "string"
       /\ request.completion.kind = "text"
            => response.body["analysis"] = JStr(request.completion.text.prose)

(* The conversion of the LLM's text failed and the page carries the text   *)
(* with the markup of the fallback.                                        *)
C16_Witness ==
  /\ Handled("operations")
  /\ request.completion.kind = "text"
  /\ request.completion.text.prose = UnrenderableText
  /\ response.body["analysis"] = JStr(UnrenderableText)
  /\ response.body["analysis_html"] = JStr(UnrenderableText \o "<br>")

(* C17: what an upload to /api/predictive-data draws from the generator of *)
(* the process does not depend on the requests served before it: no        *)
(* earlier call of generate_equipment_data has put the generator on the    *)
(* stream of seed 42 when the upload draws its maintenance offsets and its *)
(* trend series.                                                           *)
UploadDraws ==
  /\ Idle
  /\ request'.endpoint = "predictive-data"
  /\ request'.method = "POST"
  /\ response'.status = 200

C17_DrawsIndependentOfEarlierRequests ==
  [][UploadDraws => ~generator.seeded]_vars

====
